---- MODULE Spec2Model ----
(***************************************************************************)
(* A model of the RAG chatbot API (Hono router, DocumentService,           *)
(* PineconeService, apiKeyAuth).  One HTTP request is handled at a time;   *)
(* every await of a handler is a step at which the awaited external call   *)
(* (embedding, vector store, LLM, file system) either resolves or rejects. *)
(*                                                                         *)
(* JavaScript values are tagged records, so that the code's typeof tests   *)
(* and truthiness tests are modelled by what they do:                      *)
(*   [t |-> "undefined"], [t |-> "null"], [t |-> "object"],                *)
(*   [t |-> "string", s |-> <<tokens>>], [t |-> "number", n |-> Int],      *)
(*   [t |-> "array", a |-> <<values>>].                                    *)
(* A string is a sequence of tokens (TLA+ strings); numbers that the code  *)
(* compares (similarity scores, thresholds) are integers in tenths.        *)
(***************************************************************************)
EXTENDS Integers, Sequences, FiniteSets, TLC

\* ------------------------------------------------------------------ bounds

\* Number of HTTP requests one behaviour of the model serves.
MaxRequests == 2

\* Largest number of matches the vector store hands back in the model.
MaxMatches == 2

\* ------------------------------------------------------- JavaScript values

Undefined == [t |-> "undefined"]

Null == [t |-> "null"]

Obj == [t |-> "object"]

Str(s) == [t |-> "string", s |-> s]

Num(n) == [t |-> "number", n |-> n]

Arr(a) == [t |-> "array", a |-> a]

Bool(b) == [t |-> "boolean", b |-> b]

IsString(v) == v.t = "string"

IsNumber(v) == v.t = "number"

\* JavaScript truthiness: undefined, null, "" and 0 are falsy.
Truthy(v) ==
  CASE v.t = "undefined" -> FALSE
    [] v.t = "null" -> FALSE
    [] v.t = "string" -> v.s /= <<>>
    [] v.t = "number" -> v.n /= 0
    [] OTHER -> TRUE

\* a || b
OrElse(a, b) == IF Truthy(a) THEN a ELSE b

Min(a, b) == IF a <= b THEN a ELSE b

\* Decimal digits of a natural number, as String(n) writes them.
RECURSIVE Decimal(_)
Decimal(n) ==
  LET d == <<"0", "1", "2", "3", "4", "5", "6", "7", "8", "9">>
  IN IF n < 10 THEN <<d[n + 1]>> ELSE Decimal(n \div 10) \o <<d[(n % 10) + 1]>>

\* s.endsWith(suffix)
EndsWith(s, suffix) ==
  /\ Len(suffix) <= Len(s)
  /\ SubSeq(s, Len(s) - Len(suffix) + 1, Len(s)) = suffix

\* s.substring(0, n)
Substring0(s, n) == SubSeq(s, 1, Min(n, Len(s)))

\* s.replace(pat, ''): the first occurrence of pat is removed, if there is one.
ReplaceFirst(s, pat) ==
  LET hits == {i \in 1..(Len(s) - Len(pat) + 1) : SubSeq(s, i, i + Len(pat) - 1) = pat}
  IN IF hits = {} \/ pat = <<>> THEN s
     ELSE LET i == CHOOSE j \in hits : \A k \in hits : j <= k
          IN SubSeq(s, 1, i - 1) \o SubSeq(s, i + Len(pat), Len(s))

\* s.trim() on a token string whose white space is the token " ".
RECURSIVE TrimLeft(_)
TrimLeft(s) == IF s /= <<>> /\ Head(s) = " " THEN TrimLeft(Tail(s)) ELSE s

RECURSIVE TrimRight(_)
TrimRight(s) ==
  IF s /= <<>> /\ s[Len(s)] = " " THEN TrimRight(SubSeq(s, 1, Len(s) - 1)) ELSE s

Trim(s) == TrimRight(TrimLeft(s))

\* s.split(','): the pieces between the separator tokens, empty pieces kept.
RECURSIVE Split(_, _)
Split(s, sep) ==
  LET hits == {i \in 1..Len(s) : s[i] = sep}
  IN IF hits = {} THEN <<s>>
     ELSE LET i == CHOOSE j \in hits : \A k \in hits : j <= k
          IN <<SubSeq(s, 1, i - 1)>> \o Split(SubSeq(s, i + 1, Len(s)), sep)

\* A text of len characters; the characters cycle so that a prefix differs
\* from every other substring of the same length.
TextOf(len) == [i \in 1..len |-> <<"a", "b", "c", "d", "e", "f", "g">>[(i % 7) + 1]]

\* ------------------------------------------------------- program constants

\* file.size > 10 * 1024 * 1024
MaxFileSize == 10 * 1024 * 1024

allowedTypes == {"application/pdf", "text/plain"}

\* const {query, topK = 5, similarityThreshold = 0.3}: the defaults, the
\* threshold in tenths.
DefaultTopK == 5

DefaultSimilarityThreshold == 3

\* doc.text.substring(0, 200) + '...'
ExcerptLength == 200

Ellipsis == <<".", ".", ".">>

\* const batchSize = 100
batchSize == 100

\* ------------------------------------------------------------ object helpers

\* obj?.key: undefined when the key is absent.
Get(obj, key) == IF key \in DOMAIN obj THEN obj[key] ELSE Undefined

\* {...base, ...over}: the later spread wins.
Spread(base, over) ==
  [k \in (DOMAIN base) \cup (DOMAIN over) |-> IF k \in DOMAIN over THEN over[k] ELSE base[k]]

\* c.json(body, status)
Json(body, status) == [status |-> status, body |-> body]

\* --------------------------------------------------------------- middleware

\* The value of env.API_KEYS the middleware module reads when the router is
\* mounted (the path from process.env to it is BootSpec's subject).
ApiKeysRaw == <<" ", "k1", " ", ",", "k2", ",", ",", " ">>

\* new Set(env.API_KEYS.split(',').map((key) => key.trim()).filter(Boolean))
ParseApiKeys(raw) ==
  LET pieces == Split(raw, ",")
  IN {Trim(pieces[i]) : i \in DOMAIN pieces} \ {<<>>}

\* c.req.header('X-API-Key') || c.req.header('Authorization')?.replace('Bearer ', '')
HeaderApiKey(headers) ==
  LET auth == headers.authorization
      stripped == IF IsString(auth) THEN Str(ReplaceFirst(auth.s, <<"Bearer ">>)) ELSE Undefined
  IN OrElse(headers.xApiKey, stripped)

Unauthorized ==
  Json([error |-> <<"Unauthorized">>, message |-> <<"API key is required.">>], 401)

Forbidden == Json([error |-> <<"Forbidden">>, message |-> <<"Invalid API key.">>], 403)

\* apiKeyAuth: the status it answers with, or 0 when it calls next().
apiKeyAuth(headers, keys) ==
  LET apiKey == HeaderApiKey(headers)
  IN IF ~Truthy(apiKey) THEN 401
     ELSE IF apiKey.s \notin keys THEN 403
     ELSE 0

\* ------------------------------------------------------------- vector store

\* The records whose metadata field documentId equals the filter value.
MatchesFilter(st, documentId) ==
  {id \in DOMAIN st : Get(st[id].metadata, "documentId") = Str(documentId)}

\* Mutant: the delete carries no filter and empties the index.
deleteByDocumentId_NoFilter(st, documentId) == [id \in {} |-> Undefined]

\* index.deleteMany({filter: {documentId}})
deleteByDocumentId(st, documentId) ==
  [id \in (DOMAIN st) \ MatchesFilter(st, documentId) |-> st[id]]

\* index.upsert(batch): insert or replace, keyed by the record id.
Upsert(st, batch) ==
  LET ids == {batch[i].id : i \in DOMAIN batch}
      rec(id) == LET i == CHOOSE j \in DOMAIN batch :
                            batch[j].id = id /\ \A k \in DOMAIN batch : batch[k].id = id => k <= j
                 IN [values |-> batch[i].values, metadata |-> batch[i].metadata]
  IN [id \in (DOMAIN st) \cup ids |-> IF id \in ids THEN rec(id) ELSE st[id]]

\* for (let i = 0; i < vectors.length; i += batchSize): where processDocument
\* goes when the loop test is made at offset i of n vectors.
LoopTest(i, n) == IF i < n THEN "p_upsert" ELSE "p_unlink"

\* Mutant: a batch runs one vector into the next batch.
Slice_Overlapping(vectors, i, n) == SubSeq(vectors, i + 1, Min(i + n + 1, Len(vectors)))

\* vectors.slice(i, i + batchSize), i counted from 0
Slice(vectors, i, n) == SubSeq(vectors, i + 1, Min(i + n, Len(vectors)))

EmptyStore == [id \in {} |-> Undefined]

\* A record some other writer left in the index: its metadata has no text
\* and a fileName that is not a string.
ForeignStore ==
  [id \in {<<"ext-1">>} |->
     [values |-> "vec", metadata |-> [documentId |-> Str(<<"ext">>), fileName |-> Num(7)]]]

InitialStores == {EmptyStore, ForeignStore}

\* -------------------------------------------------------------------- state

VARIABLES
  boot,          \* module loading: [phase |-> ...] (see BootSpec)
  validApiKeys,  \* the middleware's Set of valid API keys
  store,         \* the Pinecone index: record id -> [values, metadata]
  files,         \* the temporary files present under uploads/
  uuids,         \* how many identifiers uuidv4() has handed out
  reqCount,      \* how many requests have arrived (also the clock)
  req,           \* the request being handled
  pc,            \* the position of its handler
  loc,           \* the handler's local variables
  calls,         \* the external calls and file operations of this request
  responses,     \* the responses produced for this request
  storeBefore,   \* the index when this request arrived
  prev           \* the previous request, when it was a successful upload or delete

vars ==
  <<boot, validApiKeys, store, files, uuids, reqCount, req, pc, loc, calls,
    responses, storeBefore, prev>>

NoRequest == [route |-> "none"]

NoPrev == [route |-> "none", documentId |-> <<>>, storeBefore |-> EmptyStore]

NoLocals ==
  [documentId |-> <<>>, filePath |-> <<>>, splitDocs |-> <<>>, pending |-> {},
   failed |-> FALSE, vectors |-> <<>>, i |-> 0, error |-> <<>>,
   relevantDocs |-> <<>>]

\* ----------------------------------------------------------- request inputs

NoHeaders == [xApiKey |-> Undefined, authorization |-> Undefined]

HeaderSets ==
  { NoHeaders,
    [xApiKey |-> Str(<<"k1">>), authorization |-> Undefined],
    [xApiKey |-> Str(<<"bad">>), authorization |-> Str(<<"Bearer ", "k2">>)],
    [xApiKey |-> Undefined, authorization |-> Str(<<"Bearer ", "k2">>)],
    [xApiKey |-> Undefined, authorization |-> Str(<<"Bearer ">>)],
    [xApiKey |-> Undefined, authorization |-> Str(<<"Bearer ", " ", "k1">>)] }

\* The bodies of POST /query: json is FALSE for a body c.req.json() rejects.
QueryBodies ==
  { [json |-> FALSE, query |-> Undefined, topK |-> Undefined,
     similarityThreshold |-> Undefined] } \cup
  { [json |-> TRUE, query |-> q, topK |-> Undefined, similarityThreshold |-> Undefined] :
      q \in {Undefined, Str(<<>>)} } \cup
  { [json |-> TRUE, query |-> Str(<<"hello">>), topK |-> kt[1],
     similarityThreshold |-> kt[2]] :
      kt \in {<<Undefined, Undefined>>, <<Num(1), Num(4)>>} }

\* The scores the vector store attaches to a match (tenths); a match may
\* carry none.
ScoreValues == {Undefined, Num(2), Num(3)}

\* What the LLM returns as response.content.
LlmContents == {Str(<<"answer">>), Arr(<<Str(<<"part">>)>>)}

DocumentIds == {<<"ext">>, <<"uuid-", "1">>, <<"uuid-", "2">>}

\* ------------------------------------------------------------ request start

Respond(r) == responses' = Append(responses, r)

\* One external call or file operation: what was called, with what, whether
\* it succeeded and what it returned.
External(op, ok, arg, res) ==
  calls' = Append(calls, [op |-> op, ok |-> ok, arg |-> arg, res |-> res])

ErrorOf(op) == <<op, " failed">>

\* A request arrives once the previous one has been answered.
NewRequest(r) ==
  /\ boot.phase = "serving"
  /\ pc \in {"idle", "done"}
  /\ reqCount < MaxRequests
  /\ reqCount' = reqCount + 1
  /\ req' = r
  /\ pc' = "auth"
  /\ loc' = NoLocals
  /\ calls' = <<>>
  /\ responses' = <<>>
  /\ storeBefore' = store
  /\ prev' = IF pc = "done" /\ req.route \in {"upload", "delete"}
                  /\ responses[1].status = 200
             THEN [route |-> req.route, documentId |-> responses[1].body.documentId,
                   storeBefore |-> storeBefore]
             ELSE NoPrev
  /\ UNCHANGED <<boot, validApiKeys, store, files, uuids>>

\* ragRouter.use('*', apiKeyAuth).  No handler reads a header, so the model
\* forgets the headers once the middleware has called next().
Auth ==
  /\ pc = "auth"
  /\ LET r == apiKeyAuth(req.headers, validApiKeys)
     IN IF r = 0
        THEN /\ pc' = req.route
             /\ req' = [req EXCEPT !.headers = NoHeaders]
             /\ UNCHANGED responses
        ELSE /\ pc' = "done"
             /\ Respond(IF r = 401 THEN Unauthorized ELSE Forbidden)
             /\ UNCHANGED req
  /\ UNCHANGED <<boot, validApiKeys, store, files, uuids, reqCount, loc, calls,
                 storeBefore, prev>>

\* ------------------------------------------------------------- POST /query

\* results.matches?.map(...) || [] of queryDocuments
QueryResults(matches) ==
  [i \in DOMAIN matches |->
     LET md == matches[i].metadata
     IN [id |-> matches[i].id,
         score |-> matches[i].score,
         text |-> IF IsString(Get(md, "text")) THEN Get(md, "text") ELSE Str(<<>>),
         fileName |-> IF IsString(Get(md, "fileName")) THEN Get(md, "fileName")
                      ELSE Str(<<"unknown">>),
         documentId |-> IF IsString(Get(md, "documentId")) THEN Get(md, "documentId")
                        ELSE Str(<<>>),
         chunkIndex |-> IF IsNumber(Get(md, "chunkIndex")) THEN Get(md, "chunkIndex")
                        ELSE Num(0)]]

\* relevantDocs[0]?.score || 0
bestScore(relevantDocs) ==
  OrElse(IF relevantDocs = <<>> THEN Undefined ELSE relevantDocs[1].score, Num(0))

\* Mutant: the request's similarityThreshold is ignored.
Threshold_IgnoresRequest(body) == Num(DefaultSimilarityThreshold)

\* similarityThreshold = 0.3 when the field is absent
Threshold(body) ==
  IF body.similarityThreshold.t = "undefined" THEN Num(DefaultSimilarityThreshold)
  ELSE body.similarityThreshold

\* topK = 5 when the field is absent
TopK(body) == IF body.topK.t = "undefined" THEN Num(DefaultTopK) ELSE body.topK

\* Mutant: the check for an empty result is missing.
QueryBranch_NoEmptyCheck(relevantDocs, similarityThreshold) ==
  IF bestScore(relevantDocs).n < similarityThreshold.n THEN "low-confidence"
  ELSE "grounded"

\* The branch the handler takes once the matches are known.
QueryBranch(relevantDocs, similarityThreshold) ==
  IF Len(relevantDocs) = 0 THEN "no-match"
  ELSE IF bestScore(relevantDocs).n < similarityThreshold.n THEN "low-confidence"
  ELSE "grounded"

\* relevantDocs.map((doc, idx) => `[Document ${idx + 1}]: ${doc.text}`).join('\n\n')
RECURSIVE Context(_, _)
Context(relevantDocs, idx) ==
  IF idx > Len(relevantDocs) THEN <<>>
  ELSE (IF idx > 1 THEN <<"\n\n">> ELSE <<>>)
       \o <<"[Document ">> \o Decimal(idx) \o <<"]: ">> \o relevantDocs[idx].text.s
       \o Context(relevantDocs, idx + 1)

\* The message handed to llm.invoke in each branch: which of the three
\* templates, the query and the context block interpolated into it.
Prompt(branch, query, relevantDocs) ==
  [template |-> branch, query |-> query,
   context |-> IF branch = "grounded" THEN Context(relevantDocs, 1) ELSE <<>>]

\* JSON.stringify of a content that is not a string.
RECURSIVE JsonStringify(_)
JsonStringify(v) ==
  CASE v.t = "string" -> <<"\"">> \o v.s \o <<"\"">>
    [] v.t = "number" -> Decimal(v.n)
    [] v.t = "array" ->
         LET RECURSIVE items(_)
             items(i) == IF i > Len(v.a) THEN <<>>
                         ELSE (IF i > 1 THEN <<",">> ELSE <<>>)
                              \o JsonStringify(v.a[i]) \o items(i + 1)
         IN <<"[">> \o items(1) \o <<"]">>
    [] OTHER -> <<"null">>

\* typeof response.content === 'string' ? response.content : JSON.stringify(response.content)
Answer(content) == IF IsString(content) THEN content.s ELSE JsonStringify(content)

\* Mutant: the excerpt is not cut to 200 characters.
Excerpt_NoTruncation(text) == IF IsString(text) THEN text.s \o Ellipsis ELSE <<>>

\* typeof doc.text === 'string' ? doc.text.substring(0, 200) + '...' : ''
Excerpt(text) ==
  IF IsString(text) THEN Substring0(text.s, ExcerptLength) \o Ellipsis ELSE <<>>

\* relevantDocs.map((doc) => ({fileName, score, text}))
Sources(relevantDocs) ==
  [i \in DOMAIN relevantDocs |->
     [fileName |-> relevantDocs[i].fileName.s,
      score |-> relevantDocs[i].score,
      text |-> Excerpt(relevantDocs[i].text)]]

\* Mutant: the conversational branches answer like the grounded one.
QueryResponse_AlwaysSources(branch, answer, relevantDocs) ==
  Json([answer |-> answer, sources |-> Sources(relevantDocs)], 200)

\* The body of the 200 response of each branch.
QueryResponse(branch, answer, relevantDocs) ==
  IF branch = "grounded"
  THEN Json([answer |-> answer, sources |-> Sources(relevantDocs)], 200)
  ELSE Json([answer |-> answer, sources |-> <<>>, conversational |-> TRUE], 200)

\* Mutant: the catch block hides the message of the error.
QueryError_NoMessage(message) ==
  Json([error |-> <<"Failed to process query">>, details |-> <<"Internal error">>,
        stack |-> <<"stack">>], 500)

\* The catch block of the /query handler.
QueryError(message) ==
  Json([error |-> <<"Failed to process query">>, details |-> message,
        stack |-> <<"stack">>], 500)

\* What index.query may hand back: up to topK distinct records of the index
\* (MaxMatches at most), in the index's order.  One answer carries a score on
\* every match, in descending order, or on none.
MatchLists(st, topK) ==
  LET most == Min(Min(topK, Cardinality(DOMAIN st)), MaxMatches)
      pick(k) == {m \in [1..k -> (DOMAIN st) \X ScoreValues] :
                    /\ \A i, j \in 1..k : i /= j => m[i][1] /= m[j][1]
                    /\ \/ \A i \in 1..k : ~IsNumber(m[i][2])
                       \/ /\ \A i \in 1..k : IsNumber(m[i][2])
                          /\ \A i, j \in 1..k : i < j => m[i][2].n >= m[j][2].n}
  IN UNION {{[i \in 1..k |-> [id |-> m[i][1], score |-> m[i][2],
                               metadata |-> st[m[i][1]].metadata]] : m \in pick(k)}
            : k \in 0..most}

\* await c.req.json(), the destructuring and the check of query
QueryStart ==
  /\ pc = "query"
  /\ IF ~req.body.json
     THEN /\ Respond(QueryError(<<"Unexpected token">>))
          /\ pc' = "done"
     ELSE IF ~Truthy(req.body.query)
     THEN /\ Respond(Json([error |-> <<"Query is required">>], 400))
          /\ pc' = "done"
     ELSE /\ pc' = "q_embed"
          /\ UNCHANGED responses
  /\ UNCHANGED <<boot, validApiKeys, store, files, uuids, reqCount, req, loc, calls,
                 storeBefore, prev>>

\* queryDocuments: await this.embeddings.embedQuery(query)
QueryEmbed ==
  /\ pc = "q_embed"
  /\ \E ok \in BOOLEAN :
       /\ External("embed", ok, req.body.query.s, <<>>)
       /\ IF ok
          THEN pc' = "q_retrieve" /\ UNCHANGED responses
          ELSE pc' = "done" /\ Respond(QueryError(ErrorOf("embed")))
  /\ UNCHANGED <<boot, validApiKeys, store, files, uuids, reqCount, req, loc,
                 storeBefore, prev>>

\* queryDocuments: await pineconeService.queryVectors(queryEmbedding, topK)
QueryRetrieve ==
  /\ pc = "q_retrieve"
  /\ \/ \E matches \in MatchLists(store, TopK(req.body).n) :
          /\ External("query", TRUE, TopK(req.body).n, matches)
          /\ loc' = [loc EXCEPT !.relevantDocs = QueryResults(matches)]
          /\ pc' = "q_generate"
          /\ UNCHANGED responses
     \/ /\ External("query", FALSE, TopK(req.body).n, <<>>)
        /\ pc' = "done"
        /\ Respond(QueryError(ErrorOf("query")))
        /\ UNCHANGED loc
  /\ UNCHANGED <<boot, validApiKeys, store, files, uuids, reqCount, req,
                 storeBefore, prev>>

\* The branch, its prompt, await llm.invoke(...) and the response.
QueryGenerate ==
  /\ pc = "q_generate"
  /\ LET branch == QueryBranch(loc.relevantDocs, Threshold(req.body))
         prompt == Prompt(branch, req.body.query.s, loc.relevantDocs)
     IN \/ \E content \in LlmContents :
             /\ External("llm", TRUE, prompt, content)
             /\ Respond(QueryResponse(branch, Answer(content), loc.relevantDocs))
        \/ /\ External("llm", FALSE, prompt, Undefined)
           /\ Respond(QueryError(ErrorOf("llm")))
  /\ pc' = "done"
  /\ UNCHANGED <<boot, validApiKeys, store, files, uuids, reqCount, req, loc,
                 storeBefore, prev>>

\* ------------------------------------------------------------- POST /upload

NoFile == [present |-> FALSE, name |-> <<>>, type |-> "", size |-> 0]

File(name, type, size) == [present |-> TRUE, name |-> name, type |-> type, size |-> size]

\* The multipart bodies of POST /upload: form is FALSE for a body
\* c.req.formData() rejects.
UploadForms ==
  { [form |-> FALSE, file |-> NoFile], [form |-> TRUE, file |-> NoFile] } \cup
  { [form |-> TRUE, file |-> f] :
      f \in { File(<<"doc", ".txt">>, "text/plain", 500),
              File(<<"report", ".pdf">>, "application/pdf", MaxFileSize),
              File(<<"notes", ".md">>, "text/plain", 500),
              File(<<"pic", ".png">>, "image/png", 500),
              File(<<"big", ".txt">>, "text/plain", MaxFileSize + 1) } }

\* The chunk texts loader and splitter may produce for an uploaded file
\* (no chunk for an empty file; a chunk is at most chunkSize characters).
SplitTexts == { <<>>, <<TextOf(3)>>, <<TextOf(ExcerptLength + 1), TextOf(3)>> }

\* The metadata PDFLoader and the splitter attach to a chunk, and the
\* metadata of a chunk of a text file.
SourceMetadata(loader, filePath) ==
  IF loader = "pdf" THEN [source |-> Str(filePath), pdf |-> Obj, loc |-> Obj]
  ELSE [loc |-> Obj]

\* Mutant: an array is kept whatever its elements are.
Supported_AnyArray(value) == value.t \in {"string", "number", "boolean", "array"}

\* Whether sanitizeMetadata keeps a value.
Supported(value) ==
  \/ value.t \in {"string", "number", "boolean"}
  \/ value.t = "array" /\ \A i \in DOMAIN value.a : value.a[i].t = "string"

sanitizeMetadata(metadata) ==
  [key \in {k \in DOMAIN metadata : Supported(metadata[k])} |-> metadata[key]]

\* Mutant: the metadata of a vector does not name its document.
Vector_NoDocumentId(documentId, fileName, doc, index, now) ==
  [id |-> documentId \o <<"-chunk-">> \o Decimal(index),
   values |-> "vec",
   metadata |-> Spread([fileName |-> Str(fileName),
                        text |-> Str(doc.pageContent),
                        chunkIndex |-> Num(index),
                        uploadedAt |-> Str(Decimal(now))],
                       sanitizeMetadata(doc.metadata))]

\* The vector processDocument builds for chunk number index (from 0).
Vector(documentId, fileName, doc, index, now) ==
  [id |-> documentId \o <<"-chunk-">> \o Decimal(index),
   values |-> "vec",
   metadata |-> Spread([documentId |-> Str(documentId),
                        fileName |-> Str(fileName),
                        text |-> Str(doc.pageContent),
                        chunkIndex |-> Num(index),
                        uploadedAt |-> Str(Decimal(now))],
                       sanitizeMetadata(doc.metadata))]

\* fileName.endsWith('.pdf') / fileName.endsWith('.txt')
Loader(fileName) ==
  IF EndsWith(fileName, <<".pdf">>) THEN "pdf"
  ELSE IF EndsWith(fileName, <<".txt">>) THEN "txt"
  ELSE "unsupported"

\* Mutant: the size of the file is not checked.
ValidateUpload_NoSizeCheck(file) ==
  IF ~file.present THEN <<"No file provided">>
  ELSE IF file.type \notin allowedTypes THEN <<"Invalid file type.">>
  ELSE <<>>

\* The validation of the /upload handler: the message of the 400 response,
\* or <<>> when the file is accepted.
ValidateUpload(file) ==
  IF ~file.present THEN <<"No file provided">>
  ELSE IF file.type \notin allowedTypes THEN <<"Invalid file type.">>
  ELSE IF file.size > MaxFileSize THEN <<"File size exceeds 10MB limit">>
  ELSE <<>>

\* Mutant: the catch block reports no details.
UploadError_NoDetails(message) == Json([error |-> <<"Failed to upload document">>], 500)

\* The catch block of the /upload handler.
UploadError(message) ==
  Json([error |-> <<"Failed to upload document">>, details |-> message], 500)

UploadSuccess(documentId, fileName) ==
  Json([success |-> TRUE, documentId |-> documentId, fileName |-> fileName,
        message |-> <<"Document uploaded and processed successfully">>], 200)

\* join('uploads', `${Date.now()}-${fileName}`)
FilePath(now, fileName) == <<"uploads/">> \o Decimal(now) \o <<"-">> \o fileName

\* await c.req.formData() and the three validations
UploadStart ==
  /\ pc = "upload"
  /\ IF ~req.body.form
     THEN /\ Respond(UploadError(<<"Failed to parse body">>))
          /\ pc' = "done"
          /\ UNCHANGED loc
     ELSE IF ValidateUpload(req.body.file) /= <<>>
     THEN /\ Respond(Json([error |-> ValidateUpload(req.body.file)], 400))
          /\ pc' = "done"
          /\ UNCHANGED loc
     ELSE /\ loc' = [loc EXCEPT !.filePath = FilePath(reqCount, req.body.file.name)]
          /\ pc' = "u_write"
          /\ UNCHANGED responses
  /\ UNCHANGED <<boot, validApiKeys, store, files, uuids, reqCount, req, calls,
                 storeBefore, prev>>

\* await writeFile(filePath, Buffer.from(buffer))
UploadWrite ==
  /\ pc = "u_write"
  /\ \E ok \in BOOLEAN :
       /\ External("writeFile", ok, loc.filePath, <<>>)
       /\ IF ok
          THEN /\ files' = files \cup {loc.filePath}
               /\ pc' = "p_load"
               /\ UNCHANGED responses
          ELSE /\ Respond(UploadError(ErrorOf("writeFile")))
               /\ pc' = "done"
               /\ UNCHANGED files
  /\ UNCHANGED <<boot, validApiKeys, store, uuids, reqCount, req, loc, storeBefore, prev>>

\* processDocument: uuidv4(), then the loader chosen by the file name
ProcessLoad ==
  /\ pc = "p_load"
  /\ uuids' = uuids + 1
  /\ LET documentId == <<"uuid-">> \o Decimal(uuids + 1)
         loader == Loader(req.body.file.name)
     IN IF loader = "unsupported"
        THEN /\ loc' = [loc EXCEPT !.documentId = documentId,
                                   !.error = <<"Unsupported file type.">>]
             /\ pc' = "p_catch"
             /\ UNCHANGED calls
        ELSE \E ok \in BOOLEAN :
               /\ External(IF loader = "pdf" THEN "load" ELSE "readFile", ok, loc.filePath, <<>>)
               /\ loc' = [loc EXCEPT !.documentId = documentId,
                                     !.error = IF ok THEN <<>> ELSE ErrorOf("load")]
               /\ pc' = IF ok THEN "p_split" ELSE "p_catch"
  /\ UNCHANGED <<boot, validApiKeys, store, files, reqCount, req, responses,
                 storeBefore, prev>>

\* await this.textSplitter.splitDocuments(docs), then the map that starts
\* one embedding call per chunk
ProcessSplit ==
  /\ pc = "p_split"
  /\ \/ \E texts \in SplitTexts :
          LET md == SourceMetadata(Loader(req.body.file.name), loc.filePath)
              splitDocs == [i \in DOMAIN texts |-> [pageContent |-> texts[i], metadata |-> md]]
          IN /\ loc' = [loc EXCEPT !.splitDocs = splitDocs, !.pending = DOMAIN texts]
             /\ pc' = IF texts = <<>> THEN LoopTest(0, 0) ELSE "p_embed"
     \/ /\ loc' = [loc EXCEPT !.error = ErrorOf("split")]
        /\ pc' = "p_catch"
  /\ UNCHANGED <<boot, validApiKeys, store, files, uuids, reqCount, req, calls,
                 responses, storeBefore, prev>>

\* Mutant: the fan-in does not wait for the calls still pending.
AllResolved_First(left) == TRUE

\* await Promise.all(...): resolved once no embedding call is left pending.
AllResolved(left) == left = {}

\* One embedQuery call of the Promise.all settles.  A rejection rejects the
\* Promise.all at once; the calls still pending settle later, unobserved.
EmbedSettle ==
  /\ req.route = "upload"
  /\ \E i \in loc.pending, ok \in BOOLEAN :
       LET left == loc.pending \ {i}
           vector == Vector(loc.documentId, req.body.file.name, loc.splitDocs[i],
                            i - 1, reqCount)
       IN /\ External("embed", ok, <<i - 1>>, <<>>)
          /\ IF ok
             THEN /\ loc' = [loc EXCEPT !.pending = left,
                                         !.vectors = [j \in (DOMAIN loc.vectors) \cup {i} |->
                                                        IF j = i THEN vector ELSE loc.vectors[j]]]
                  /\ pc' = IF pc = "p_embed" /\ AllResolved(left)
                           THEN LoopTest(0, Len(loc.splitDocs)) ELSE pc
             ELSE /\ loc' = [loc EXCEPT !.pending = left,
                                         !.error = IF pc = "p_embed" THEN ErrorOf("embed")
                                                   ELSE loc.error]
                  /\ pc' = IF pc = "p_embed" THEN "p_catch" ELSE pc
  /\ UNCHANGED <<boot, validApiKeys, store, files, uuids, reqCount, req, responses,
                 storeBefore, prev>>

\* upsertVectors: one pass of the loop, await index.upsert(batch)
ProcessUpsert ==
  /\ pc = "p_upsert"
  /\ LET batch == Slice(loc.vectors, loc.i, batchSize)
     IN \E ok \in BOOLEAN :
          /\ External("upsert", ok, batch, <<>>)
          /\ IF ok
             THEN /\ store' = Upsert(store, batch)
                  /\ loc' = [loc EXCEPT !.i = loc.i + batchSize]
                  /\ pc' = LoopTest(loc.i + batchSize, Len(loc.vectors))
             ELSE /\ loc' = [loc EXCEPT !.error = ErrorOf("upsert")]
                  /\ pc' = "p_catch"
                  /\ UNCHANGED store
  /\ UNCHANGED <<boot, validApiKeys, files, uuids, reqCount, req, responses,
                 storeBefore, prev>>

\* unlinkSync(filePath); return documentId; and the handler's 200 response
ProcessUnlink ==
  /\ pc = "p_unlink"
  /\ \E ok \in BOOLEAN :
       /\ External("unlink", ok, loc.filePath, <<>>)
       /\ IF ok
          THEN /\ files' = files \ {loc.filePath}
               /\ Respond(UploadSuccess(loc.documentId, req.body.file.name))
               /\ pc' = "done"
               /\ UNCHANGED loc
          ELSE /\ loc' = [loc EXCEPT !.error = ErrorOf("unlink")]
               /\ pc' = "p_catch"
               /\ UNCHANGED <<files, responses>>
  /\ UNCHANGED <<boot, validApiKeys, store, uuids, reqCount, req, storeBefore, prev>>

\* catch (error) { try { unlinkSync(filePath) } catch {} throw error }, and
\* the handler's catch block
ProcessCatch ==
  /\ pc = "p_catch"
  /\ \E ok \in BOOLEAN :
       /\ ok => loc.filePath \in files
       /\ External("unlink", ok, loc.filePath, <<>>)
       /\ files' = IF ok THEN files \ {loc.filePath} ELSE files
  /\ Respond(UploadError(loc.error))
  /\ pc' = "done"
  /\ UNCHANGED <<boot, validApiKeys, store, uuids, reqCount, req, loc, storeBefore, prev>>

\* ------------------------------------- DELETE /documents/:id, /stats, /health

\* The handler of DELETE /documents/:documentId and deleteDocument
Delete ==
  /\ pc = "delete"
  /\ IF ~Truthy(Str(req.documentId))
     THEN /\ Respond(Json([error |-> <<"Document ID is required">>], 400))
          /\ UNCHANGED <<store, calls>>
     ELSE \E ok \in BOOLEAN :
            /\ External("deleteMany", ok, req.documentId, <<>>)
            /\ IF ok
               THEN /\ store' = deleteByDocumentId(store, req.documentId)
                    /\ Respond(Json([success |-> TRUE,
                                     message |-> <<"Document deleted successfully">>,
                                     documentId |-> req.documentId], 200))
               ELSE /\ Respond(Json([error |-> <<"Failed to delete document">>,
                                     details |-> ErrorOf("deleteMany")], 500))
                    /\ UNCHANGED store
  /\ pc' = "done"
  /\ UNCHANGED <<boot, validApiKeys, files, uuids, reqCount, req, loc, storeBefore, prev>>

\* The handler of GET /stats: describeIndexStats passed through
Stats ==
  /\ pc = "stats"
  /\ \E ok \in BOOLEAN :
       /\ External("describeIndexStats", ok, <<>>, <<>>)
       /\ IF ok
          THEN Respond(Json([totalRecordCount |-> Cardinality(DOMAIN store)], 200))
          ELSE Respond(Json([error |-> <<"Failed to get index stats">>,
                             details |-> ErrorOf("describeIndexStats")], 500))
  /\ pc' = "done"
  /\ UNCHANGED <<boot, validApiKeys, store, files, uuids, reqCount, req, loc,
                 storeBefore, prev>>

\* The handler of GET /health
Health ==
  /\ pc = "health"
  /\ Respond(Json([status |-> <<"ok">>, service |-> <<"RAG API">>], 200))
  /\ pc' = "done"
  /\ UNCHANGED <<boot, validApiKeys, store, files, uuids, reqCount, req, loc, calls,
                 storeBefore, prev>>

\* ------------------------------------------------------------ specification

Requests ==
  { [route |-> "upload", headers |-> h, body |-> b] : h \in HeaderSets, b \in UploadForms }
  \cup
  { [route |-> "query", headers |-> h, body |-> b] : h \in HeaderSets, b \in QueryBodies }
  \cup
  { [route |-> "delete", headers |-> h, documentId |-> d] :
      h \in HeaderSets, d \in DocumentIds }
  \cup
  { [route |-> r, headers |-> h] : r \in {"stats", "health"}, h \in HeaderSets }

Init ==
  /\ boot = [phase |-> "serving"]
  /\ validApiKeys = ParseApiKeys(ApiKeysRaw)
  /\ store \in InitialStores
  /\ files = {}
  /\ uuids = 0
  /\ reqCount = 0
  /\ req = NoRequest
  /\ pc = "idle"
  /\ loc = NoLocals
  /\ calls = <<>>
  /\ responses = <<>>
  /\ storeBefore = store
  /\ prev = NoPrev

Next ==
  \/ \E r \in Requests : NewRequest(r)
  \/ Auth
  \/ UploadStart
  \/ UploadWrite
  \/ ProcessLoad
  \/ ProcessSplit
  \/ EmbedSettle
  \/ ProcessUpsert
  \/ ProcessUnlink
  \/ ProcessCatch
  \/ QueryStart
  \/ QueryEmbed
  \/ QueryRetrieve
  \/ QueryGenerate
  \/ Delete
  \/ Stats
  \/ Health

Spec == Init /\ [][Next]_vars

\* ------------------------------------------------- one ingestion, in flight

\* The most vectors one ingestion hands to upsertVectors.
MaxVectors == 201

\* An accepted upload whose file has been written and loaded.
IngestFile == File(<<"doc", ".txt">>, "text/plain", 500)

IngestRequest ==
  [route |-> "upload", headers |-> NoHeaders, body |-> [form |-> TRUE, file |-> IngestFile]]

IngestPath == FilePath(1, IngestFile.name)

IngestId == <<"uuid-">> \o Decimal(1)

\* The calls of the request up to the end of the load.
IngestCalls ==
  << [op |-> "writeFile", ok |-> TRUE, arg |-> IngestPath, res |-> <<>>],
     [op |-> "readFile", ok |-> TRUE, arg |-> IngestPath, res |-> <<>>] >>

\* What stays fixed while processDocument runs for the first upload.
Ingesting ==
  /\ boot = [phase |-> "serving"]
  /\ validApiKeys = ParseApiKeys(ApiKeysRaw)
  /\ store \in InitialStores
  /\ storeBefore = store
  /\ files = {IngestPath}
  /\ uuids = 1
  /\ reqCount = 1
  /\ req = IngestRequest
  /\ responses = <<>>
  /\ prev = NoPrev

\* n chunks of a text file, as the splitter hands them over.
Chunks(n, metadata) == [k \in 1..n |-> [pageContent |-> TextOf(3), metadata |-> metadata]]

\* processDocument at the call of upsertVectors: every chunk is embedded and
\* its vector built.
BatchInit ==
  /\ Ingesting
  /\ \E n \in 0..MaxVectors :
       LET splitDocs == Chunks(n, SourceMetadata("txt", IngestPath))
       IN /\ loc = [NoLocals EXCEPT
                      !.documentId = IngestId,
                      !.filePath = IngestPath,
                      !.splitDocs = splitDocs,
                      !.vectors = [k \in 1..n |->
                                     Vector(IngestId, IngestFile.name, splitDocs[k], k - 1, 1)]]
          /\ calls = IngestCalls \o
                     [k \in 1..n |-> [op |-> "embed", ok |-> TRUE, arg |-> <<k - 1>>,
                                      res |-> <<>>]]
          /\ pc = LoopTest(0, n)

BatchNext ==
  \/ ProcessUpsert
  \/ ProcessUnlink
  \/ ProcessCatch

BatchSpec == BatchInit /\ [][BatchNext]_vars

\* The values a loader may attach to a metadata key.
MetadataValues ==
  { Undefined, Null, Obj, Str(<<"v">>), Num(1), Bool(TRUE), Arr(<<>>),
    Arr(<<Str(<<"a">>)>>), Arr(<<Str(<<"a">>), Num(1)>>) }

MetadataKeys == {"source", "documentId", "text"}

\* doc.metadata: any keys among MetadataKeys, any value for each.
SourceMetadatas == UNION {[K -> MetadataValues] : K \in SUBSET MetadataKeys}

\* processDocument after the split into two chunks, before any embedding
\* call has settled.
MetadataInit ==
  /\ Ingesting
  /\ \E metadata \in SourceMetadatas :
       loc = [NoLocals EXCEPT !.documentId = IngestId,
                              !.filePath = IngestPath,
                              !.splitDocs = Chunks(2, metadata),
                              !.pending = {1, 2}]
  /\ calls = IngestCalls
  /\ pc = "p_embed"

MetadataNext ==
  \/ EmbedSettle
  \/ ProcessUpsert
  \/ ProcessUnlink
  \/ ProcessCatch

MetadataSpec == MetadataInit /\ [][MetadataNext]_vars

\* ------------------------------------------------------------ module loading

\* PORT: z.coerce.number().default(3000)
DefaultPort == 3000

\* The keys envSchema declares; the first three are z.string().min(1).
RequiredEnv == {"PINECONE_API_KEY", "PINECONE_INDEX_NAME", "GOOGLE_API_KEY"}

\* Number(s) of a string of decimal digits; -1 stands for NaN.
RECURSIVE ParseNumber(_)
ParseNumber(s) ==
  LET digit(c) == CASE c = "0" -> 0 [] c = "1" -> 1 [] c = "2" -> 2 [] c = "3" -> 3
                    [] c = "4" -> 4 [] c = "5" -> 5 [] c = "6" -> 6 [] c = "7" -> 7
                    [] c = "8" -> 8 [] c = "9" -> 9 [] OTHER -> -1
  IN IF s = <<>> THEN 0
     ELSE LET head == ParseNumber(SubSeq(s, 1, Len(s) - 1))
              last == digit(s[Len(s)])
          IN IF head < 0 \/ last < 0 THEN -1 ELSE 10 * head + last

\* Whether envSchema.parse(process.env) succeeds.
EnvValid(processEnv) ==
  /\ \A k \in RequiredEnv : IsString(processEnv[k]) /\ processEnv[k].s /= <<>>
  /\ IsString(processEnv.PORT) => ParseNumber(processEnv.PORT.s) >= 0

\* envSchema.parse(process.env): the object of the declared keys (an object
\* schema strips every key it does not declare).
parseEnv(processEnv) ==
  [k \in RequiredEnv \cup {"PORT"} |->
     IF k = "PORT"
     THEN (IF IsString(processEnv.PORT) THEN Num(ParseNumber(processEnv.PORT.s))
           ELSE Num(DefaultPort))
     ELSE processEnv[k]]

NoEnv == [k \in {} |-> Undefined]

\* The environments the process may be started in.
ProcessEnvs ==
  { [PINECONE_API_KEY |-> a, PINECONE_INDEX_NAME |-> b, GOOGLE_API_KEY |-> c,
     PORT |-> p, API_KEYS |-> k] :
      a \in {Undefined, Str(<<>>), Str(<<"pc-key">>)},
      b \in {Undefined, Str(<<"chatbot-rag">>)},
      c \in {Undefined, Str(<<"g-key">>)},
      p \in {Undefined, Str(<<"8", "0", "8", "0">>), Str(<<"x">>)},
      k \in {Undefined, Str(ApiKeysRaw), Str(<<"k1">>)} }

\* The requests a client sends while the process is starting or has stopped.
BootRequests == { [route |-> "health", headers |-> h] : h \in HeaderSets }

\* export const env = parseEnv(): process.exit(1) when validation fails
ParseEnv ==
  /\ boot.phase = "start"
  /\ boot' = IF EnvValid(boot.processEnv)
             THEN [boot EXCEPT !.phase = "env", !.env = parseEnv(boot.processEnv)]
             ELSE [boot EXCEPT !.phase = "exit"]
  /\ UNCHANGED <<validApiKeys, store, files, uuids, reqCount, req, pc, loc, calls,
                 responses, storeBefore, prev>>

\* The middleware module's top level: new Set(env.API_KEYS.split(',')...).
\* Calling split on undefined throws, and the import of the router fails.
LoadAuthMiddleware ==
  /\ boot.phase = "env"
  /\ LET raw == Get(boot.env, "API_KEYS")
     IN IF IsString(raw)
        THEN /\ validApiKeys' = ParseApiKeys(raw.s)
             /\ boot' = [boot EXCEPT !.phase = "serving"]
        ELSE /\ boot' = [boot EXCEPT !.phase = "crashed"]
             /\ UNCHANGED validApiKeys
  /\ UNCHANGED <<store, files, uuids, reqCount, req, pc, loc, calls, responses,
                 storeBefore, prev>>

\* A request sent to a process that has stopped is never answered.
Refused(r) ==
  /\ boot.phase \in {"exit", "crashed"}
  /\ pc = "idle"
  /\ req' = r
  /\ pc' = "refused"
  /\ reqCount' = reqCount + 1
  /\ UNCHANGED <<boot, validApiKeys, store, files, uuids, loc, calls, responses,
                 storeBefore, prev>>

BootInit ==
  /\ boot \in {[phase |-> "start", processEnv |-> e, env |-> NoEnv] : e \in ProcessEnvs}
  /\ validApiKeys = {}
  /\ store = EmptyStore
  /\ files = {}
  /\ uuids = 0
  /\ reqCount = 0
  /\ req = NoRequest
  /\ pc = "idle"
  /\ loc = NoLocals
  /\ calls = <<>>
  /\ responses = <<>>
  /\ storeBefore = EmptyStore
  /\ prev = NoPrev

BootNext ==
  \/ ParseEnv
  \/ LoadAuthMiddleware
  \/ \E r \in BootRequests : Refused(r)

BootSpec == BootInit /\ [][BootNext]_vars

\* ------------------------------------------------------------------- claims

\* The response of the request in hand, once it is answered.
Status == responses[1].status

Body == responses[1].body

\* The request passed the middleware and its handler has returned.
Handled(route) ==
  /\ pc = "done"
  /\ req.route = route
  /\ Len(responses) >= 1
  /\ Status \notin {401, 403}

CallsOf(op) == {i \in DOMAIN calls : calls[i].op = op}

\* The threshold T of a /query request, in tenths.
RequestThreshold ==
  IF req.body.similarityThreshold.t = "number" THEN req.body.similarityThreshold.n
  ELSE DefaultSimilarityThreshold

\* The matches the vector store returned to this /query request.
Retrieved == {i \in CallsOf("query") : calls[i].ok}

Matches == calls[CHOOSE i \in Retrieved : TRUE].res

LlmSucceeded == \E i \in CallsOf("llm") : calls[i].ok

Conversational ==
  /\ Status = 200
  /\ "conversational" \in DOMAIN Body
  /\ Body.conversational = TRUE
  /\ Body.sources = <<>>

\* The outcomes of one /query request, each told by the response and by what
\* the request did.
QueryOutcome(o) ==
  CASE o = "validation" -> Status = 400 /\ calls = <<>>
    [] o = "failure" -> Status = 500
    [] o = "no-match" ->
         /\ Conversational
         /\ Retrieved /= {} /\ Matches = <<>>
         /\ \A i \in CallsOf("llm") : calls[i].arg.template = "no-match"
    [] o = "low-confidence" ->
         /\ Conversational
         /\ Retrieved /= {} /\ Matches /= <<>>
         /\ \A i \in CallsOf("llm") : calls[i].arg.template = "low-confidence"
    [] o = "grounded" ->
         /\ Status = 200
         /\ "conversational" \notin DOMAIN Body
         /\ Retrieved /= {} /\ Matches /= <<>>
         /\ \A i \in CallsOf("llm") : calls[i].arg.template = "grounded"

QueryOutcomes == {"validation", "no-match", "low-confidence", "grounded", "failure"}

\* C1: every authenticated POST /query ends in exactly one of the outcomes
\* 400 validation, conversational no-match, conversational low-confidence,
\* grounded, 500 failure, with exactly one response, and with exactly one LLM
\* call when the outcome is not an error; until then no response exists, the
\* handler can take a step, and at most one LLM call has been issued.
C1_ExactlyOneOutcome ==
  /\ Handled("query") =>
       /\ Len(responses) = 1
       /\ Cardinality({o \in QueryOutcomes : QueryOutcome(o)}) = 1
       /\ Status = 200 => Cardinality(CallsOf("llm")) = 1
  /\ (req.route = "query" /\ pc /= "done") =>
       /\ responses = <<>>
       /\ Cardinality(CallsOf("llm")) = 0
       /\ ENABLED (Auth \/ QueryStart \/ QueryEmbed \/ QueryRetrieve \/ QueryGenerate)

C1_Witness ==
  /\ Handled("query")
  /\ QueryOutcome("low-confidence")
  /\ Cardinality(CallsOf("llm")) = 1

\* C2: when the vector store returns zero matches and the LLM call succeeds,
\* the /query response is conversational with no sources and carries the
\* LLM's answer, and no grounded prompt with document context was sent.
C2_NoMatchIsConversational ==
  (Handled("query") /\ Retrieved /= {} /\ Matches = <<>> /\ LlmSucceeded) =>
     /\ Conversational
     /\ \A i \in CallsOf("llm") :
          /\ calls[i].arg.template /= "grounded"
          /\ calls[i].arg.context = <<>>
          /\ IsString(calls[i].res) => Body.answer = calls[i].res.s
          /\ ~IsString(calls[i].res) => Body.answer /= <<>>

C2_Witness ==
  /\ Handled("query")
  /\ Retrieved /= {} /\ Matches = <<>> /\ LlmSucceeded
  /\ store /= EmptyStore
  /\ Body.answer = <<"answer">>

\* C3: when matches exist and the first match's score is below the threshold
\* T (default 0.3), the response is conversational with no sources: no match
\* is exposed to the caller.
C3_LowConfidenceIsConversational ==
  (/\ Handled("query")
   /\ Retrieved /= {} /\ Matches /= <<>>
   /\ IsNumber(Matches[1].score)
   /\ Matches[1].score.n < RequestThreshold) =>
     /\ LlmSucceeded => Conversational
     /\ ~LlmSucceeded => Status = 500 /\ "sources" \notin DOMAIN Body

C3_Witness ==
  /\ Handled("query")
  /\ Retrieved /= {} /\ Len(Matches) = 1
  /\ IsNumber(Matches[1].score)
  /\ Matches[1].score.n >= DefaultSimilarityThreshold
  /\ Matches[1].score.n < RequestThreshold
  /\ Conversational

\* The first ExcerptLength characters of a text, then the ellipsis.
ExcerptOf(text) ==
  [i \in 1..(Min(Len(text), ExcerptLength) + 3) |->
     IF i <= Min(Len(text), ExcerptLength) THEN text[i] ELSE "."]

\* C4: when the first match's score is >= T, the sources list is non-empty
\* and has one entry per retrieved match in the vector store's order, each
\* with the match's fileName, its raw score and the first 200 characters of
\* the chunk text followed by "..." (at most 203 characters).
C4_GroundedSources ==
  (/\ Handled("query")
   /\ Retrieved /= {} /\ Matches /= <<>>
   /\ IsNumber(Matches[1].score)
   /\ Matches[1].score.n >= RequestThreshold
   /\ LlmSucceeded) =>
     /\ Status = 200
     /\ Body.sources /= <<>>
     /\ Len(Body.sources) = Len(Matches)
     /\ \A i \in DOMAIN Matches :
          LET md == Matches[i].metadata
              src == Body.sources[i]
          IN /\ src.score = Matches[i].score
             /\ Len(src.text) <= ExcerptLength + 3
             /\ ("fileName" \in DOMAIN md /\ IsString(md.fileName)) =>
                  src.fileName = md.fileName.s
             /\ ("text" \in DOMAIN md /\ IsString(md.text)) =>
                  src.text = ExcerptOf(md.text.s)

C4_Witness ==
  /\ Handled("query")
  /\ Retrieved /= {} /\ Len(Matches) = 2
  /\ IsNumber(Matches[1].score)
  /\ Matches[1].score.n = RequestThreshold
  /\ Matches[2].score.n < Matches[1].score.n
  /\ Status = 200
  /\ Len(Body.sources) = 2
  /\ Len(Body.sources[1].text) = 3 + 3
  /\ Len(Body.sources[2].text) = ExcerptLength + 3
  /\ "text" \in DOMAIN Matches[2].metadata
  /\ Len(Matches[2].metadata.text.s) > ExcerptLength

\* The API keys the environment configures: the trimmed, non-empty entries
\* of API_KEYS.
ConfiguredKeys(processEnv) ==
  LET RECURSIVE entries(_)
      entries(raw) ==
        IF raw = <<>> THEN {<<>>}
        ELSE IF "," \in {raw[i] : i \in DOMAIN raw}
        THEN LET i == CHOOSE j \in DOMAIN raw :
                        raw[j] = "," /\ \A k \in 1..(j - 1) : raw[k] /= ","
             IN {SubSeq(raw, 1, i - 1)} \cup entries(SubSeq(raw, i + 1, Len(raw)))
        ELSE {raw}
      strip(e) == LET keep == {i \in DOMAIN e : e[i] /= " "}
                  IN IF keep = {} THEN <<>>
                     ELSE SubSeq(e, CHOOSE i \in keep : \A k \in keep : i <= k,
                                    CHOOSE i \in keep : \A k \in keep : k <= i)
  IN {strip(e) : e \in entries(processEnv.API_KEYS.s)} \ {<<>>}

\* C5: on every protected route a request with no credential gets 401, one
\* whose credential is not among the configured API_KEYS entries gets 403,
\* and one whose credential is among them proceeds to the route handler; in
\* the 401 and 403 cases nothing else runs.  Stated for a process started in
\* a valid environment that sets API_KEYS.
C5_CredentialGate ==
  (/\ "processEnv" \in DOMAIN boot
   /\ EnvValid(boot.processEnv)
   /\ IsString(boot.processEnv.API_KEYS)
   /\ req.route /= "none"
   /\ pc \notin {"idle", "auth"}) =>
     LET key == HeaderApiKey(req.headers)
         allowed == ConfiguredKeys(boot.processEnv)
     IN /\ ~Truthy(key) => responses = <<Unauthorized>> /\ calls = <<>>
        /\ (Truthy(key) /\ key.s \notin allowed) => responses = <<Forbidden>> /\ calls = <<>>
        /\ (Truthy(key) /\ key.s \in allowed) =>
             /\ boot.phase = "serving"
             /\ pc /= "refused"
             /\ \A i \in DOMAIN responses : responses[i].status \notin {401, 403}

\* The request passed the middleware.
Authenticated ==
  /\ pc \notin {"idle", "auth", "refused"}
  /\ pc = "done" => Handled(req.route)

\* C6: validation failures are answered with 400 before any external call:
\* an upload with no file, with a MIME type other than application/pdf or
\* text/plain, or larger than 10 MiB, and a query without a query, each get
\* 400, with no temporary file written and no embedding, vector-store or LLM
\* call issued.
C6_ValidationBeforeExternalCalls ==
  /\ (/\ Authenticated /\ req.route = "upload" /\ req.body.form
      /\ \/ ~req.body.file.present
         \/ req.body.file.type \notin {"application/pdf", "text/plain"}
         \/ req.body.file.size > 10 * 1024 * 1024) =>
       /\ pc \in {"upload", "done"}
       /\ calls = <<>> /\ store = storeBefore
       /\ pc = "done" => Status = 400
  /\ (/\ Authenticated /\ req.route = "query" /\ req.body.json
      /\ \/ req.body.query.t = "undefined"
         \/ req.body.query.t = "string" /\ req.body.query.s = <<>>) =>
       /\ pc \in {"query", "done"}
       /\ calls = <<>> /\ store = storeBefore
       /\ pc = "done" => Status = 400
  /\ (pc = "done" /\ Len(responses) >= 1 /\ Status = 400) =>
       calls = <<>> /\ store = storeBefore

C6_Witness ==
  /\ Handled("upload")
  /\ req.body.file.present
  /\ req.body.file.type = "text/plain"
  /\ req.body.file.size = MaxFileSize + 1
  /\ Status = 400
  /\ calls = <<>>

\* C7: every upload that passes input validation is ingested and returns a
\* new document identifier, provided every external call and file operation
\* succeeds.
C7_AcceptedUploadSucceeds ==
  (/\ Handled("upload") /\ req.body.form
   /\ req.body.file.present
   /\ req.body.file.type \in {"application/pdf", "text/plain"}
   /\ req.body.file.size <= 10 * 1024 * 1024
   /\ \A i \in DOMAIN calls : calls[i].ok) =>
     /\ Status = 200
     /\ Body.success = TRUE
     /\ Body.documentId \notin {prev.documentId, <<>>}

\* The record's metadata names this document.
OfDocument(record, documentId) ==
  /\ "documentId" \in DOMAIN record.metadata
  /\ record.metadata.documentId.t = "string"
  /\ record.metadata.documentId.s = documentId

\* C8: deletion is idempotent: DELETE for an identifier with no matching
\* vectors returns {success: true, documentId} and leaves the vector store
\* unchanged, and deleting the same identifier twice leaves the store as
\* deleting it once does: every record of that document is gone, every other
\* record is untouched.
C8_DeleteIdempotent ==
  (Handled("delete") /\ \E i \in CallsOf("deleteMany") : calls[i].ok) =>
     /\ Status = 200
     /\ Body.success = TRUE
     /\ Body.documentId = req.documentId
     /\ DOMAIN store =
          {id \in DOMAIN storeBefore : ~OfDocument(storeBefore[id], req.documentId)}
     /\ \A id \in DOMAIN store : store[id] = storeBefore[id]
     /\ (\A id \in DOMAIN storeBefore : ~OfDocument(storeBefore[id], req.documentId))
          => store = storeBefore
     /\ (prev.route = "delete" /\ prev.documentId = req.documentId)
          => store = storeBefore

C8_Witness ==
  /\ Handled("delete")
  /\ Status = 200
  /\ prev.route = "delete"
  /\ prev.documentId = req.documentId
  /\ prev.storeBefore /= storeBefore
  /\ store = storeBefore

\* C9: a successful ingestion followed immediately by the deletion of the
\* returned identifier leaves the vector store as it was before the
\* ingestion, so its record count is unchanged: what the ingestion wrote is
\* removed and no earlier record is.
C9_IngestThenDelete ==
  (/\ Handled("delete") /\ Status = 200
   /\ prev.route = "upload" /\ prev.documentId = req.documentId) =>
     /\ Cardinality(DOMAIN store) = Cardinality(DOMAIN prev.storeBefore)
     /\ store = prev.storeBefore

C9_Witness ==
  /\ Handled("delete") /\ Status = 200
  /\ prev.route = "upload" /\ prev.documentId = req.documentId
  /\ Cardinality(DOMAIN storeBefore) = Cardinality(DOMAIN prev.storeBefore) + 2
  /\ prev.storeBefore /= EmptyStore

CallOps == [i \in DOMAIN calls |-> calls[i].op]

\* C11: within one query request the external calls are issued in the order
\* embed, retrieve, generate, each at most once and never retried; when one
\* of them fails no later call is issued and the caller receives a 500 that
\* carries the message of that error, never an answer.
C11_QueryCallsInOrder ==
  (Authenticated /\ req.route = "query") =>
     /\ Len(calls) <= 3
     /\ CallOps = SubSeq(<<"embed", "query", "llm">>, 1, Len(calls))
     /\ \A i \in DOMAIN calls :
          ~calls[i].ok =>
            /\ i = Len(calls)
            /\ pc = "done"
            /\ Status = 500
            /\ Body.details = <<calls[i].op, " failed">>
            /\ "answer" \notin DOMAIN Body
     /\ (pc = "done" /\ "answer" \in DOMAIN Body) =>
          /\ Len(calls) = 3
          /\ \A i \in DOMAIN calls : calls[i].ok

C11_Witness ==
  /\ Handled("query")
  /\ CallOps = <<"embed", "query">>
  /\ calls[1].ok
  /\ ~calls[2].ok
  /\ Status = 500

\* Chunk number k (from 0) has a successful embedding call among the first
\* upto calls of this request.
Embedded(k, upto) ==
  \E j \in 1..upto : calls[j].op = "embed" /\ calls[j].ok /\ calls[j].arg = <<k>>

\* C12: in one ingestion the embedding calls of the chunks complete in any
\* order, but no upsert is issued before every chunk's embedding call has
\* completed successfully; when one embedding call fails the ingestion fails
\* as a whole and no upsert is issued for that document.
C12_FanInBeforeUpsert ==
  (Authenticated /\ req.route = "upload") =>
     LET chunks == 0..(Len(loc.splitDocs) - 1)
     IN /\ pc = "p_upsert" => \A k \in chunks : Embedded(k, Len(calls))
        /\ \A u \in CallsOf("upsert") : \A k \in chunks : Embedded(k, u - 1)
        /\ \A i, j \in CallsOf("embed") : calls[i].arg = calls[j].arg => i = j
        /\ (\E j \in CallsOf("embed") : ~calls[j].ok) =>
             /\ CallsOf("upsert") = {}
             /\ store = storeBefore
             /\ pc \in {"p_catch", "done"}
             /\ pc = "done" => Status = 500 /\ Body.details = <<"embed", " failed">>

C12_Witness ==
  /\ Handled("upload")
  /\ Status = 200
  /\ CallsOf("upsert") /= {}
  /\ \E i, j \in CallsOf("embed") :
       i < j /\ calls[i].arg = <<1>> /\ calls[j].arg = <<0>>

\* The upsert calls of this request, in the order they were issued.
UpsertCalls == SelectSeq(calls, LAMBDA c : c.op = "upsert")

\* The batches of the first k upsert calls, one after another.
RECURSIVE Submitted(_)
Submitted(k) == IF k = 0 THEN <<>> ELSE Submitted(k - 1) \o UpsertCalls[k].arg

\* C13: upsertVectors cuts the vector list into consecutive batches of at
\* most 100 and submits them one after another in list order: the batches
\* submitted so far, put end to end, are the beginning of the list, every
\* vector at its own place and so in one batch only; a list of n vectors
\* takes (n + 99) div 100 calls, none when n = 0.
C13_BatchesPartition ==
  LET n == Len(loc.vectors)
      ups == UpsertCalls
      sent == Submitted(Len(ups))
  IN /\ \A i \in DOMAIN ups :
          /\ Len(ups[i].arg) \in 1..100
          /\ i < Len(ups) => ups[i].ok /\ Len(ups[i].arg) = 100
     /\ sent = SubSeq(loc.vectors, 1, Min(100 * Len(ups), n))
     /\ \A k \in DOMAIN sent : sent[k].metadata.chunkIndex = Num(k - 1)
     /\ (pc /= "p_upsert" /\ \A i \in DOMAIN ups : ups[i].ok) =>
          /\ Len(ups) = (n + 99) \div 100
          /\ sent = loc.vectors
          /\ n = 0 => ups = <<>>

C13_Witness ==
  /\ pc = "p_unlink"
  /\ Len(loc.vectors) = 201
  /\ Len(UpsertCalls) = 3
  /\ Len(UpsertCalls[3].arg) = 1
  /\ Cardinality(DOMAIN store) = Cardinality(DOMAIN storeBefore) + 201

\* The key of the record of chunk number index of a document.
KeyOf(documentId, index) == documentId \o <<"-chunk-">> \o Decimal(index)

\* The upload's file was written, so processDocument was called.
ReachedProcessing ==
  /\ Handled("upload")
  /\ calls /= <<>>
  /\ calls[1].op = "writeFile"
  /\ calls[1].ok

\* The ingestion produced chunks and the record of every one is in the index.
StoredAll ==
  /\ loc.splitDocs /= <<>>
  /\ \A k \in DOMAIN loc.splitDocs : KeyOf(loc.documentId, k - 1) \in DOMAIN store

\* C14: for every upload that reached processing the temporary file is
\* deleted once processing ends, whatever the stage that failed, and a
\* failure of the deletion never replaces the outcome of the ingestion: an
\* ingestion error is reported with its own message, and an ingestion whose
\* chunk vectors were all stored is not reported as a failure.
C14_CleanupKeepsOutcome ==
  ReachedProcessing =>
     /\ CallsOf("unlink") /= {}
     /\ (\E u \in CallsOf("unlink") : calls[u].ok) => loc.filePath \notin files
     /\ loc.error \notin {<<>>, <<"unlink", " failed">>} =>
          Status = 500 /\ Body.details = loc.error
     /\ StoredAll => Status = 200 /\ Body.documentId = loc.documentId

\* The record id is a chunk key of the document.
KeyedBy(documentId, id) ==
  /\ Len(id) > Len(documentId) + 1
  /\ SubSeq(id, 1, Len(documentId) + 1) = documentId \o <<"-chunk-">>

\* C17: ingestion is all-or-nothing for the vector store: whenever
\* processDocument fails, at whatever stage, and the upload is answered with
\* an error, the index holds no record keyed with that ingestion's document
\* identifier.
C17_AllOrNothing ==
  (ReachedProcessing /\ Status >= 400) =>
     \A id \in DOMAIN store : ~KeyedBy(loc.documentId, id)

\* A value the vector store accepts: a string, a number, a boolean or an
\* array of strings.
Storable(v) ==
  \/ v.t = "string"
  \/ v.t = "number"
  \/ v.t = "boolean"
  \/ v.t = "array" /\ \A i \in 1..Len(v.a) : v.a[i].t = "string"

\* The metadata fields processDocument sets itself.
OwnFields == {"documentId", "fileName", "text", "chunkIndex", "uploadedAt"}

\* C15: every record written to the vector store has metadata whose values
\* are strings, numbers, booleans or arrays of strings: of the source
\* metadata of a chunk exactly the entries with such a value are kept, each
\* whole, every other entry is dropped whole, and no chunk fails for its
\* metadata.
C15_MetadataSanitized ==
  /\ \A id \in DOMAIN store :
       \A k \in DOMAIN store[id].metadata : Storable(store[id].metadata[k])
  /\ \A i \in DOMAIN loc.vectors :
       LET src == loc.splitDocs[i].metadata
           md == loc.vectors[i].metadata
       IN /\ \A k \in DOMAIN md : Storable(md[k])
          /\ DOMAIN md \subseteq OwnFields \cup DOMAIN src
          /\ \A k \in DOMAIN src :
               /\ Storable(src[k]) => k \in DOMAIN md /\ md[k] = src[k]
               /\ (~Storable(src[k]) /\ k \notin OwnFields) => k \notin DOMAIN md
               /\ (~Storable(src[k]) /\ k \in OwnFields) => md[k] /= src[k]
  /\ \A i \in DOMAIN loc.splitDocs :
       Embedded(i - 1, Len(calls)) => i \in DOMAIN loc.vectors

C15_Witness ==
  /\ Handled("upload")
  /\ Status = 200
  /\ DOMAIN loc.splitDocs[1].metadata = {"source", "text"}
  /\ loc.splitDocs[1].metadata.source = Arr(<<Str(<<"a">>), Num(1)>>)
  /\ loc.splitDocs[1].metadata.text = Obj
  /\ DOMAIN store[KeyOf(loc.documentId, 0)].metadata = OwnFields

====
